---- MODULE Spec2Model ----
(***************************************************************************)
(* CliffWatch service worker: cache lifecycle (install, activate), request *)
(* interception (fetch) with its retrieval strategies, the control channel *)
(* (message) and the notification dispatcher (push, notificationclick,     *)
(* sync).  Three of the repository's worker scripts are                    *)
(* modelled side by side; the variable "variant" says which script the     *)
(* worker runs:                                                            *)
(*   "v3"    src/sw.js   lines 1-220   (cliff-watch-v3)                    *)
(*   "v1"    src/sw.js   lines 222-372 (cliff-watch-v1, network-first)     *)
(*   "final" src/sw3.js                (cliff-watch-final-v1)              *)
(* Strings are sequences of tokens; String.includes is containment of a    *)
(* contiguous run of tokens.                                               *)
(***************************************************************************)
EXTENDS Naturals, Sequences, FiniteSets, TLC

(***************************************************************************)
(* Bounds of the model.                                                    *)
(***************************************************************************)
\* number of fetch events that can be in flight at the same time
MaxInFlight == 2
\* number of distinct response bodies the network can serve for one URL
MaxBody == 2
\* number of cache.put operations started and not yet settled
MaxPending == 1
\* number of caches that exist before the worker is installed
MaxPrior == 2
\* number of client windows open at a notification click
MaxWindows == 2

Variants == {"v3", "v1", "final"}

(***************************************************************************)
(* Strings.                                                                *)
(***************************************************************************)
\* String.prototype.includes
Includes(s, sub) ==
    \E i \in 1..(Len(s) + 1) :
        /\ i + Len(sub) - 1 <= Len(s)
        /\ SubSeq(s, i, i + Len(sub) - 1) = sub

\* String.prototype.endsWith
EndsWith(s, suf) ==
    /\ Len(suf) <= Len(s)
    /\ SubSeq(s, Len(s) - Len(suf) + 1, Len(s)) = suf

\* self.location.origin of the worker
OriginHost == <<"cliffwatch", ".", "org">>

\* the URLs of the model, as the scripts and the pages write them
UrlRoot     == "/"
UrlIndex    == "/index.html"
UrlManifest == "/manifest.json"
UrlIcon     == "/icon-192.png"
UrlArcgisJs == "https://js.arcgis.com/4.28/"
UrlLeaflet  == "https://unpkg.com/leaflet@1.9.4/dist/leaflet.css"
\* URLs that name the live-data domain outside their host, or inside a host
\* of another domain
UrlRef      == "/?from=arcgis.com"
UrlEvil     == "https://arcgis.com.evil.example/lib.js"

\* new URL(u).hostname; a relative URL resolves against the worker's origin
Host(u) ==
    CASE u = UrlArcgisJs -> <<"js", ".", "arcgis", ".", "com">>
      [] u = UrlLeaflet  -> <<"unpkg", ".", "com">>
      [] u = UrlEvil     -> <<"arcgis", ".", "com", ".", "evil", ".", "example">>
      [] OTHER           -> OriginHost

\* new URL(u).pathname
Path(u) ==
    CASE u = UrlRoot     -> <<"/">>
      [] u = UrlIndex    -> <<"/", "index", ".", "html">>
      [] u = UrlManifest -> <<"/", "manifest", ".", "json">>
      [] u = UrlIcon     -> <<"/", "icon-192", ".", "png">>
      [] u = UrlArcgisJs -> <<"/", "4.28", "/">>
      [] u = UrlLeaflet  -> <<"/", "leaflet@1.9.4", "/", "dist", "/", "leaflet",
                              ".", "css">>
      [] u = UrlRef      -> <<"/">>
      [] u = UrlEvil     -> <<"/", "lib", ".", "js">>

\* new URL(u).search
Search(u) ==
    IF u = UrlRef THEN <<"?", "from", "=", "arcgis", ".", "com">> ELSE <<>>

\* request.url, the whole string
Href(u) == <<"https", "://">> \o Host(u) \o Path(u) \o Search(u)

\* the URLs the model requests, and those whose cache entries it follows
Urls == {UrlRoot, UrlIndex, UrlManifest, UrlArcgisJs, UrlLeaflet}
CachedUrls == Urls

(***************************************************************************)
(* Configuration of the three scripts.                                     *)
(***************************************************************************)
CACHE_NAME(v) ==
    CASE v = "v3"    -> "cliff-watch-v3"
      [] v = "v1"    -> "cliff-watch-v1"
      [] v = "final" -> "cliff-watch-final-v1"

\* STATIC_ASSETS (v3, final) and CACHE_URLS (v1); relative URLs resolve
\* against the worker's origin
STATIC_ASSETS(v) ==
    CASE v = "v3" ->
           { UrlManifest, UrlIcon, "/icon-512.png",
             "https://js.arcgis.com/4.28/esri/themes/dark/main.css",
             UrlArcgisJs }
      [] v = "v1" ->
           { UrlRoot, UrlIndex, UrlManifest, UrlLeaflet,
             "https://unpkg.com/leaflet@1.9.4/dist/leaflet.js",
             "https://fonts.googleapis.com/css2?family=JetBrains+Mono" }
      [] v = "final" -> { UrlManifest }

\* the baseline assets that lie in the model's URL universe
InstallAssets(v) == STATIC_ASSETS(v) \cap CachedUrls

(***************************************************************************)
(* Responses and the cache storage.                                        *)
(***************************************************************************)
Bodies == 1..MaxBody

\* a response: ok is Response.ok (status in 200..299), type is Response.type
\* ("basic" for a same-origin response, "cors" for a cross-origin one), body
\* stands for the content the server sent
Resp == [ok : BOOLEAN, type : {"basic", "cors"}, body : Bodies]
NoResp == [ok |-> FALSE, type |-> "none", body |-> 0]
\* fetch() rejected
NetFail == [ok |-> FALSE, type |-> "error", body |-> 0]

\* Response.type of a response to a request for u
TypeOf(u) == IF Host(u) = OriginHost THEN "basic" ELSE "cors"

\* the responses the network can give to a request for u; an error response
\* carries no content the model tells apart
NetResponses(u) ==
    { [ok |-> TRUE, type |-> TypeOf(u), body |-> b] : b \in Bodies }
        \cup { [ok |-> FALSE, type |-> TypeOf(u), body |-> 1] }

Tags == { CACHE_NAME(v) : v \in Variants }

\* a cache is a function from the URLs it holds to the responses stored
EmptyCache == [u \in {} |-> NoResp]

\* Cache.match: the response the cache holds for u, NoResp when none
Lookup(cache, u) == IF u \in DOMAIN cache THEN cache[u] ELSE NoResp

\* Cache.put: the cache with r stored under u
Store(cache, u, r) ==
    [x \in DOMAIN cache \cup {u} |-> IF x = u THEN r ELSE cache[x]]

\* what a store left behind by an earlier worker holds
PriorCache ==
    Store(EmptyCache, UrlManifest, [ok |-> TRUE, type |-> "basic", body |-> MaxBody])

VARIABLES
    variant,      \* which script the worker runs
    down,         \* while the worker installs: the baseline assets that
                  \* cannot be fetched
    phase,        \* ServiceWorker.state: parsed, installing, installed,
                  \* activating, activated, redundant
    cacheOrder,   \* CacheStorage: the names of the existing caches, oldest first
    cacheEnt,     \* CacheStorage: name -> (URL -> stored response)
    skipWaiting,  \* self.skipWaiting() has been called
    toDelete,     \* activate: caches.delete calls started and not settled
    claimed,      \* self.clients.claim() has been called
    inflight,     \* the fetch events being handled, by slot
    pendingPut,   \* cache.put operations started and not settled
    pendingDel,   \* message: caches.delete(CACHE_NAME) started and not settled
    cleared,      \* history: a clearCache command has been received
    msg,          \* history: the data of the last message event
    push,         \* the last push event and what its listener did
    click         \* the last notificationclick event and what its listener did

vars == <<variant, down, phase, cacheOrder, cacheEnt, skipWaiting, toDelete, claimed,
          inflight, pendingPut, pendingDel, cleared, msg, push, click>>

notifyVars == <<push, click>>
lifecycleVars == <<phase, skipWaiting, toDelete, claimed>>
cacheVars == <<cacheOrder, cacheEnt>>

SeqToSet(s) == { s[i] : i \in 1..Len(s) }
Remove(s, x) == SelectSeq(s, LAMBDA y : y /= x)

\* CacheStorage.has
CacheExists(t) == t \in SeqToSet(cacheOrder)

\* CacheStorage.open: the cache order after open(t), which creates t if missing
OpenOrder(order, t) == IF t \in SeqToSet(order) THEN order ELSE Append(order, t)

\* CacheStorage.match: the entry of the first cache, oldest first, holding u
RECURSIVE MatchIn(_, _, _)
MatchIn(order, ent, u) ==
    IF order = <<>> THEN NoResp
    ELSE IF u \in DOMAIN ent[Head(order)] THEN ent[Head(order)][u]
    ELSE MatchIn(Tail(order), ent, u)

CachesMatch(u) == MatchIn(cacheOrder, cacheEnt, u)

(***************************************************************************)
(* Notifications: push payloads, presented notifications, client windows.  *)
(***************************************************************************)
\* a JSON value where the script expects a string (null, a number): it has
\* no method includes
NonString == <<"<non-string>">>

TitleDefault  == <<"Cliff", " ", "Watch", " ", "Alert">>
TitleCritical == <<"Critical", " ", "Landslide", " ", "Risk">>
TitleHigh     == <<"High", " ", "Risk">>
TitleHighway  == <<"High", "way", " ", "closed">>
TitleModerate == <<"Moderate", " ", "Risk">>
TitleLower    == <<"critical", " ", "risk">>

BodyDefault  == <<"Risk", " ", "level", " ", "has", " ", "changed">>
BodyElevated == <<"Risk", " ", "elevated">>
TextHigh     == <<"High", " ", "tide", " ", "at", " ", "noon">>
TextBrace    == <<"{", "title", ":">>

\* the object value of a notification's data: a function from its keys
DataDefault == [url |-> UrlRoot]
DataAlerts  == [url |-> "/alerts"]
DataEmpty   == [url |-> ""]
DataNoUrl   == [k \in {} |-> ""]

\* let data = {...}: the defaults of the push listener
Defaults ==
    [title |-> TitleDefault, body |-> BodyDefault, icon |-> UrlIcon,
     badge |-> UrlIcon, tag |-> "cliff-watch-alert", data |-> DataDefault]

\* event.data of a push event: kind "none" when there is none, "json" when
\* event.data.json() parses it (json is then the parsed value's own
\* enumerable keys), "text" when json() throws (text is event.data.text())
NoPayload      == [kind |-> "none", text |-> <<>>, json |-> <<>>]
TextPayload(t) == [kind |-> "text", text |-> t, json |-> <<>>]
JsonPayload(j) == [kind |-> "json", text |-> <<>>, json |-> j]

Payloads ==
    {NoPayload, TextPayload(TextHigh), TextPayload(TextBrace),
     JsonPayload(<<>>),
     JsonPayload([title |-> TitleCritical, body |-> BodyElevated]),
     JsonPayload([title |-> TitleHigh, data |-> DataAlerts]),
     JsonPayload([title |-> TitleHighway, tag |-> "roads"]),
     JsonPayload([title |-> TitleModerate, requireInteraction |-> TRUE]),
     JsonPayload([title |-> TitleLower, data |-> DataNoUrl]),
     JsonPayload([body |-> TextHigh, data |-> DataEmpty]),
     JsonPayload([title |-> NonString])}

\* {...data, ...json}: the keys of json laid over those of data
Merge(data, json) ==
    [k \in DOMAIN data \cup DOMAIN json |->
        IF k \in DOMAIN json THEN json[k] ELSE data[k]]

\* Resolve without the catch branch's assignment to data.body
Resolve_TextDropped(payload) ==
    CASE payload.kind = "none" -> Defaults
      [] payload.kind = "json" -> Merge(Defaults, payload.json)
      [] payload.kind = "text" -> Defaults

\* data after the listener has read event.data
Resolve(payload) ==
    CASE payload.kind = "none" -> Defaults
      [] payload.kind = "json" -> Merge(Defaults, payload.json)
      [] payload.kind = "text" -> [Defaults EXCEPT !.body = payload.text]

\* the requireInteraction option: v3 looks for 'Critical' or 'High' in the
\* title, v1 for 'High'
RequireInteraction(v, title) ==
    IF v = "v3"
    THEN Includes(title, <<"Critical">>) \/ Includes(title, <<"High">>)
    ELSE Includes(title, <<"High">>)

\* the options given to showNotification
Options(v, data) ==
    [title |-> data.title, body |-> data.body, icon |-> data.icon,
     badge |-> data.badge, tag |-> data.tag, data |-> data.data,
     vibrate |-> <<200, 100, 200>>,
     requireInteraction |-> RequireInteraction(v, data.title)]

\* the last push event: its payload, the notifications it presented, whether
\* the listener threw, whether the notification is still on display
NoPush == [seen |-> FALSE, payload |-> NoPayload, shown |-> <<>>,
           threw |-> FALSE, visible |-> FALSE]

\* self.location.origin and the URLs of the client windows
Origin == <<"https", "://">> \o OriginHost
AboutBlank == <<"about", ":", "blank">>
ClientUrls == {Href(UrlIndex), AboutBlank}

WindowLists == UNION { [1..k -> ClientUrls] : k \in 0..MaxWindows }

\* the last notificationclick event: the notification clicked, the list
\* clients.matchAll resolved with, whether clients have focus and whether
\* clients.openWindow exists; then what the listener did: closed the
\* notification, the index of the client it focused (0: none), the URLs it
\* opened windows at
NoClick == [seen |-> FALSE, note |-> Options("v3", Defaults), windows |-> <<>>,
            canFocus |-> FALSE, canOpen |-> FALSE, closed |-> FALSE,
            focused |-> 0, opened |-> <<>>]

(***************************************************************************)
(* Fetch events in flight.                                                 *)
(***************************************************************************)
Slots == 1..MaxInFlight

NoReq == [method |-> "none", url |-> UrlRoot, accept |-> <<>>, mode |-> "none"]

\* a slot: pc is where the handler stands; strat the strategy it was given;
\* net what await fetch(request) gave (NetFail when it rejected);
\* out what the event ended with ("pass": respondWith not called, "resp": a
\* response, "undef": respondWith resolved with undefined, "reject": the
\* handler's promise rejected); res the response and from where it came;
\* rd, wr, nc: the handler has read the cache storage, has started a
\* cache.put, has called fetch()
IdleSlot == [pc |-> "idle", req |-> NoReq, strat |-> "none", net |-> NoResp,
             out |-> "none", res |-> NoResp, from |-> "none", rd |-> FALSE,
             wr |-> FALSE, nc |-> FALSE]

\* Put under the key of the index document
Put_IndexKey(t, u, r) == [tag |-> t, url |-> UrlIndex, resp |-> r]

\* a cache.put started and not settled
Put(t, u, r) == [tag |-> t, url |-> u, resp |-> r]

InjectiveSeqs(S, n) ==
    { q \in UNION { [1..k -> S] : k \in 0..n } :
        \A i, j \in 1..Len(q) : i /= j => q[i] /= q[j] }

Init ==
    /\ variant \in Variants
    /\ down = {}
    /\ phase = "parsed"
    /\ cacheOrder \in InjectiveSeqs(Tags, MaxPrior)
    /\ cacheEnt = [t \in Tags |->
                     IF t \in SeqToSet(cacheOrder) THEN PriorCache ELSE EmptyCache]
    /\ skipWaiting = FALSE
    /\ toDelete = {}
    /\ claimed = FALSE
    /\ inflight = [s \in Slots |-> IdleSlot]
    /\ pendingPut = {}
    /\ pendingDel = FALSE
    /\ cleared = FALSE
    /\ msg = "none"
    /\ push = NoPush
    /\ click = NoClick

\* CacheStorage.delete(t): the cache and its entries go; a cache.put still
\* writing to it writes to a cache nobody can reach any more, so it leaves
\* the model
DeleteCache(t) ==
    /\ cacheOrder' = Remove(cacheOrder, t)
    /\ cacheEnt' = [cacheEnt EXCEPT ![t] = EmptyCache]
    /\ pendingPut' = { p \in pendingPut : p.tag /= t }

(***************************************************************************)
(* install                                                                 *)
(***************************************************************************)
\* the install event is dispatched: the handler opens its cache (final calls
\* skipWaiting first) and starts fetching the baseline assets, of which
\* those in down cannot be fetched
Install ==
    /\ phase = "parsed"
    /\ phase' = "installing"
    /\ skipWaiting' = (variant = "final")
    /\ cacheOrder' = OpenOrder(cacheOrder, CACHE_NAME(variant))
    /\ down' \in SUBSET InstallAssets(variant)
    /\ UNCHANGED <<notifyVars, msg, variant, cacheEnt, toDelete, claimed, inflight, pendingPut,
                   pendingDel, cleared>>

\* the entries of the worker's cache after cache.add stored the assets (the
\* server sends its first content while the worker installs); nothing shows
\* when the cache was deleted since it was opened
AddAssets(ent, t, assets) ==
    IF ~CacheExists(t) THEN ent
    ELSE [ent EXCEPT ![t] =
            [u \in DOMAIN ent[t] \cup assets |->
                IF u \in assets
                THEN [ok |-> TRUE, type |-> TypeOf(u), body |-> 1]
                ELSE ent[t][u]]]

\* v3: cache.add per asset with its own catch, Promise.allSettled
InstallAllSettled(unreachable) ==
    /\ cacheEnt' = AddAssets(cacheEnt, CACHE_NAME(variant),
                             InstallAssets(variant) \ unreachable)
    /\ skipWaiting' = TRUE
    /\ phase' = "installed"

\* v1, final: cache.addAll stores all the assets or none, and rejects when
\* one cannot be fetched; v1 calls skipWaiting after it, final has called it
InstallAddAll(unreachable) ==
    IF unreachable = {}
    THEN /\ cacheEnt' = AddAssets(cacheEnt, CACHE_NAME(variant),
                                  InstallAssets(variant))
         /\ skipWaiting' = TRUE
         /\ phase' = "installed"
    ELSE /\ cacheEnt' = cacheEnt
         /\ skipWaiting' = skipWaiting
         /\ phase' = "redundant"

\* the promise given to install's waitUntil settles
InstallSettle ==
    /\ phase = "installing"
    /\ IF variant = "v3"
       THEN InstallAllSettled(down)
       ELSE InstallAddAll(down)
    /\ UNCHANGED <<notifyVars, msg, variant, down, cacheOrder, toDelete, claimed, inflight,
                   pendingPut, pendingDel, cleared>>

(***************************************************************************)
(* activate                                                                *)
(***************************************************************************)
\* ToPurge with the comparison inverted
ToPurge_Inverted(names, current) == { n \in names : n = current }

\* ToPurge deleting nothing
ToPurge_None(names, current) == {}

\* activate: the names whose deletion the handler starts, given caches.keys()
ToPurge(names, current) == { n \in names : n /= current }

\* the activate event is dispatched: caches.keys() is read and a
\* caches.delete is started for every name that is not CACHE_NAME
Activate ==
    /\ phase = "installed"
    /\ phase' = "activating"
    /\ toDelete' = ToPurge(SeqToSet(cacheOrder), CACHE_NAME(variant))
    /\ down' = {}
    /\ UNCHANGED <<notifyVars, msg, variant, cacheOrder, cacheEnt, skipWaiting, claimed, inflight,
                   pendingPut, pendingDel, cleared>>

\* one of the deletions started by activate settles
ActivateDelete ==
    /\ phase = "activating"
    /\ \E t \in toDelete :
          /\ DeleteCache(t)
          /\ toDelete' = toDelete \ {t}
    /\ UNCHANGED <<notifyVars, msg, variant, down, phase, skipWaiting, claimed, inflight, pendingDel,
                   cleared>>

\* Promise.all of the deletions has resolved
PurgeSettled == toDelete = {}

\* .then(() => self.clients.claim())
ActivateClaim ==
    /\ phase = "activating"
    /\ PurgeSettled
    /\ ~claimed
    /\ claimed' = TRUE
    /\ UNCHANGED <<notifyVars, msg, variant, down, phase, cacheOrder, cacheEnt, skipWaiting, toDelete,
                   inflight, pendingPut, pendingDel, cleared>>

\* ActivateSettled for a handler that gives waitUntil nothing to wait for
ActivateSettled_NoWait == TRUE

\* the promise given to activate's waitUntil has settled
ActivateSettled == PurgeSettled /\ claimed

\* the worker becomes activated once the activate event's promise settled
ActivateDone ==
    /\ phase = "activating"
    /\ ActivateSettled
    /\ phase' = "activated"
    /\ UNCHANGED <<notifyVars, msg, variant, down, cacheOrder, cacheEnt, skipWaiting, toDelete, claimed,
                   inflight, pendingPut, pendingDel, cleared>>

(***************************************************************************)
(* message (v3 only)                                                       *)
(***************************************************************************)
\* event.data of the messages the pages send
Commands == {"skipWaiting", "clearCache", "force-update", "clear-cache", "ping"}

\* IsClearCache for the literal 'clear-cache'
IsClearCache_Kebab(cmd) == cmd = "clear-cache"

\* event.data === 'clearCache'
IsClearCache(cmd) == cmd = "clearCache"

\* event.data === 'skipWaiting'
IsSkipWaiting(cmd) == cmd = "skipWaiting"

\* a message event: 'skipWaiting' calls self.skipWaiting(), 'clearCache'
\* starts caches.delete(CACHE_NAME), anything else is ignored
Message(cmd) ==
    /\ variant = "v3"
    /\ phase \in {"installing", "installed", "activating", "activated"}
    /\ skipWaiting' = (skipWaiting \/ IsSkipWaiting(cmd))
    /\ pendingDel' = (pendingDel \/ IsClearCache(cmd))
    /\ cleared' = (cleared \/ IsClearCache(cmd))
    /\ msg' = cmd
    /\ UNCHANGED <<notifyVars, variant, down, phase, cacheOrder, cacheEnt, toDelete, claimed,
                   inflight, pendingPut>>

\* the caches.delete(CACHE_NAME) started by 'clearCache' settles
ClearCacheSettle ==
    /\ pendingDel
    /\ pendingDel' = FALSE
    /\ DeleteCache(CACHE_NAME(variant))
    /\ UNCHANGED <<notifyVars, msg, variant, down, phase, skipWaiting, toDelete, claimed, inflight,
                   cleared>>

(***************************************************************************)
(* fetch                                                                   *)
(***************************************************************************)
\* Accept header values; <<>> stands for a request without the header
AcceptHtml == <<"text/html", ",", "*/*">>
AcceptAny  == <<"*/*">>

Request(m, u, a, md) == [method |-> m, url |-> u, accept |-> a, mode |-> md]

ReqNavRoot      == Request("GET", UrlRoot, AcceptHtml, "navigate")
ReqNavIndex     == Request("GET", UrlIndex, AcceptHtml, "navigate")
ReqManifest     == Request("GET", UrlManifest, AcceptAny, "cors")
ReqManifestHtml == Request("GET", UrlManifest, AcceptHtml, "cors")
ReqLeaflet      == Request("GET", UrlLeaflet, AcceptAny, "no-cors")
ReqArcgis       == Request("GET", UrlArcgisJs, AcceptAny, "cors")
ReqPost         == Request("POST", UrlRoot, AcceptHtml, "navigate")
ReqPostArcgis   == Request("POST", UrlArcgisJs, <<>>, "cors")

Requests == {ReqNavRoot, ReqNavIndex, ReqManifest, ReqManifestHtml, ReqLeaflet,
             ReqArcgis, ReqPost, ReqPostArcgis}

ArcgisCom == <<"arcgis", ".", "com">>
ServicesArcgisCom == <<"services", ".", "arcgis", ".", "com">>
Services1ArcgisCom == <<"services1", ".", "arcgis", ".", "com">>

\* IsLiveUrl with its first test lost
IsLiveUrl_ServicesOnly(req) ==
    \/ Includes(Href(req.url), ServicesArcgisCom)
    \/ Includes(Href(req.url), Services1ArcgisCom)

\* IsLiveUrl with every test lost
IsLiveUrl_Never(req) == FALSE

\* v3: the test on event.request.url that leaves a request to the browser
IsLiveUrl(req) ==
    \/ Includes(Href(req.url), ArcgisCom)
    \/ Includes(Href(req.url), ServicesArcgisCom)
    \/ Includes(Href(req.url), Services1ArcgisCom)

\* v1, final: the same test on url.hostname
IsLiveHostname(req) ==
    \/ Includes(Host(req.url), ArcgisCom)
    \/ Includes(Host(req.url), ServicesArcgisCom)

\* v3: the test that sends a request to networkFirstStrategy
IsHtmlRequest(req) ==
    \/ Includes(req.accept, <<"text/html">>)
    \/ Path(req.url) = <<"/">>
    \/ EndsWith(Path(req.url), <<".", "html">>)

\* v1: the test that sends a request to fetch().catch(() => caches.match('/'))
IsNavigate(req) ==
    \/ req.mode = "navigate"
    \/ Includes(req.accept, <<"text/html">>)

\* NotGet with the test lost
NotGet_Never(req) == FALSE

\* the test that skips a request whose method is not GET
NotGet(req) == req.method /= "GET"

\* the fetch listener up to respondWith: "pass" when it returns without
\* calling respondWith, else the strategy it responds with
\*   "NF"     networkFirstStrategy (v3)
\*   "CF"     cacheFirstStrategy (v3)
\*   "NAVFB"  fetch(request).catch(() => caches.match('/')) (v1)
\*   "NETFB"  fetch(request).catch(() => caches.match(request)) (v1, final)
Route(v, req) ==
    CASE v = "v3" ->
           IF NotGet(req) THEN "pass"
           ELSE IF IsLiveUrl(req) THEN "pass"
           ELSE IF IsHtmlRequest(req) THEN "NF"
           ELSE "CF"
      [] v = "v1" ->
           IF NotGet(req) THEN "pass"
           ELSE IF IsLiveHostname(req) THEN "pass"
           ELSE IF IsNavigate(req) THEN "NAVFB"
           ELSE "NETFB"
      [] v = "final" ->
           IF NotGet(req) THEN "pass"
           ELSE IF IsLiveHostname(req) THEN "pass"
           ELSE "NETFB"

\* the baseline document the navigation strategies fall back to
ShellUrl(strat) == IF strat = "NF" THEN UrlIndex ELSE UrlRoot

\* fetch events reach the worker once it is activated
Serving == phase = "activated"

\* a fetch event is dispatched: the listener runs up to its first await
FetchEvent(s, req) ==
    /\ Serving
    /\ inflight[s].pc = "idle"
    /\ \A t \in Slots : t < s => inflight[t].pc /= "idle"
    /\ LET strat == Route(variant, req) IN
         inflight' = [inflight EXCEPT ![s] =
            CASE strat = "pass" ->
                   [IdleSlot EXCEPT !.pc = "done", !.req = req, !.strat = strat,
                                    !.out = "pass"]
              [] strat = "CF" ->
                   [IdleSlot EXCEPT !.pc = "cacheMatch", !.req = req,
                                    !.strat = strat]
              [] OTHER ->
                   [IdleSlot EXCEPT !.pc = "fetch", !.req = req, !.strat = strat,
                                    !.nc = TRUE]]
    /\ UNCHANGED <<notifyVars, msg, variant, down, lifecycleVars, cacheVars, pendingPut, pendingDel,
                   cleared>>

\* the handler returns (or throws): the promise given to respondWith settles
Finish(slot, out, res, from) ==
    [slot EXCEPT !.pc = "done", !.out = out, !.res = res, !.from = from]

\* Found with the test lost
Found_Never(r) == FALSE

\* if (cachedResponse): caches.match resolved with a response
Found(r) == r /= NoResp

\* cacheFirstStrategy: await caches.match(request) settles
CacheFirstMatch(s) ==
    /\ inflight[s].pc = "cacheMatch"
    /\ LET slot == [inflight[s] EXCEPT !.rd = TRUE]
           hit == CachesMatch(slot.req.url) IN
         inflight' = [inflight EXCEPT ![s] =
            IF Found(hit)
            THEN Finish(slot, "resp", hit, "cache")
            ELSE [slot EXCEPT !.pc = "fetch", !.nc = TRUE]]
    /\ UNCHANGED <<notifyVars, msg, variant, down, lifecycleVars, cacheVars, pendingPut, pendingDel,
                   cleared>>

\* ShouldStore without the test of Response.ok
ShouldStore_AnyStatus(strat, resp) ==
    CASE strat = "NF" -> TRUE
      [] strat = "CF" -> resp.type = "basic"
      [] OTHER -> FALSE

\* ShouldStore without the test of Response.type
ShouldStore_AnyOrigin(strat, resp) ==
    CASE strat = "NF" -> resp.ok
      [] strat = "CF" -> resp.ok
      [] OTHER -> FALSE

\* ShouldStore with cacheFirstStrategy's test of Response.ok lost
ShouldStore_BasicAnyStatus(strat, resp) ==
    CASE strat = "NF" -> resp.ok
      [] strat = "CF" -> resp.type = "basic"
      [] OTHER -> FALSE

\* the condition under which a strategy stores the network response
ShouldStore(strat, resp) ==
    CASE strat = "NF" -> resp.ok
      [] strat = "CF" -> resp.ok /\ resp.type = "basic"
      [] OTHER -> FALSE

\* await fetch(request) resolves with resp: the strategies of v3 open the
\* cache and start cache.put, without awaiting it, when the response is to
\* be stored; every strategy returns the network response
NetworkResponse(s, resp) ==
    /\ inflight[s].pc = "fetch"
    /\ LET slot == [inflight[s] EXCEPT !.net = resp]
           tag == CACHE_NAME(variant) IN
         IF ShouldStore(slot.strat, resp)
         THEN /\ Cardinality(pendingPut) < MaxPending
              /\ cacheOrder' = OpenOrder(cacheOrder, tag)
              /\ pendingPut' = pendingPut \cup {Put(tag, slot.req.url, resp)}
              /\ inflight' = [inflight EXCEPT ![s] =
                    Finish([slot EXCEPT !.wr = TRUE], "resp", resp, "network")]
         ELSE /\ inflight' = [inflight EXCEPT ![s] =
                    Finish(slot, "resp", resp, "network")]
              /\ UNCHANGED <<cacheOrder, pendingPut>>
    /\ UNCHANGED <<notifyVars, msg, variant, down, lifecycleVars, cacheEnt, pendingDel, cleared>>

\* await fetch(request) rejects: cacheFirstStrategy rethrows, the others go
\* on to caches.match
NetworkError(s) ==
    /\ inflight[s].pc = "fetch"
    /\ LET slot == [inflight[s] EXCEPT !.net = NetFail] IN
         inflight' = [inflight EXCEPT ![s] =
            CASE slot.strat = "CF" -> Finish(slot, "reject", NoResp, "none")
              [] slot.strat = "NAVFB" -> [slot EXCEPT !.pc = "matchShell"]
              [] OTHER -> [slot EXCEPT !.pc = "matchRequest"]]
    /\ UNCHANGED <<notifyVars, msg, variant, down, lifecycleVars, cacheVars, pendingPut, pendingDel,
                   cleared>>

\* after a network error, caches.match(request) settles
FallbackMatch(s) ==
    /\ inflight[s].pc = "matchRequest"
    /\ LET slot == [inflight[s] EXCEPT !.rd = TRUE]
           hit == CachesMatch(slot.req.url) IN
         inflight' = [inflight EXCEPT ![s] =
            IF hit /= NoResp THEN Finish(slot, "resp", hit, "cache")
            ELSE IF slot.strat = "NF" THEN [slot EXCEPT !.pc = "matchShell"]
            ELSE Finish(slot, "undef", NoResp, "none")]
    /\ UNCHANGED <<notifyVars, msg, variant, down, lifecycleVars, cacheVars, pendingPut, pendingDel,
                   cleared>>

\* after a network error, caches.match of the baseline document settles:
\* networkFirstStrategy rethrows on a miss, v1 resolves with undefined
ShellMatch(s) ==
    /\ inflight[s].pc = "matchShell"
    /\ LET slot == [inflight[s] EXCEPT !.rd = TRUE]
           hit == CachesMatch(ShellUrl(slot.strat)) IN
         inflight' = [inflight EXCEPT ![s] =
            IF hit /= NoResp THEN Finish(slot, "resp", hit, "shell")
            ELSE IF slot.strat = "NF" THEN Finish(slot, "reject", NoResp, "none")
            ELSE Finish(slot, "undef", NoResp, "none")]
    /\ UNCHANGED <<notifyVars, msg, variant, down, lifecycleVars, cacheVars, pendingPut, pendingDel,
                   cleared>>

\* a cache.put settles: the entry shows in the cache it was started on
PutSettle(p) ==
    /\ p \in pendingPut
    /\ pendingPut' = pendingPut \ {p}
    /\ cacheEnt' = [cacheEnt EXCEPT ![p.tag] = Store(@, p.url, p.resp)]
    /\ UNCHANGED <<notifyVars, msg, variant, down, lifecycleVars, cacheOrder, inflight, pendingDel,
                   cleared>>

\* the page has taken the outcome of the event
Retire(s) ==
    /\ inflight[s].pc = "done"
    /\ inflight' = [inflight EXCEPT ![s] = IdleSlot]
    /\ UNCHANGED <<notifyVars, msg, variant, down, lifecycleVars, cacheVars, pendingPut, pendingDel,
                   cleared>>

\* the steps of the fetch events handled in the slots S for the requests R
Fetch(S, R) ==
    \/ \E s \in S, req \in R : FetchEvent(s, req)
    \/ \E s \in S : CacheFirstMatch(s)
    \/ \E s \in S, resp \in Resp :
          resp \in NetResponses(inflight[s].req.url) /\ NetworkResponse(s, resp)
    \/ \E s \in S : NetworkError(s)
    \/ \E s \in S : FallbackMatch(s)
    \/ \E s \in S : ShellMatch(s)
    \/ \E p \in pendingPut : PutSettle(p)
    \/ \E s \in S : Retire(s)

(***************************************************************************)
(* push, notificationclick, sync (v3 and v1; sw3.js has no such listener)  *)
(***************************************************************************)
workerVars == <<variant, down, lifecycleVars, cacheVars, inflight, pendingPut,
                pendingDel, cleared, msg>>

\* the scripts that listen to push, notificationclick and sync events, which
\* reach the active worker
Notifying == variant \in {"v3", "v1"} /\ phase = "activated"

\* a push event: the listener resolves data and calls showNotification once;
\* data.title.includes throws when the title is not a string, before
\* showNotification is called
Push(payload) ==
    /\ Notifying
    /\ LET data == Resolve(payload) IN
         push' = IF data.title = NonString
                 THEN [seen |-> TRUE, payload |-> payload, shown |-> <<>>,
                       threw |-> TRUE, visible |-> FALSE]
                 ELSE [seen |-> TRUE, payload |-> payload,
                       shown |-> <<Options(variant, data)>>,
                       threw |-> FALSE, visible |-> TRUE]
    /\ UNCHANGED <<workerVars, click>>

\* event.notification.data?.url || '/'
UrlToOpen(note) ==
    IF "url" \in DOMAIN note.data /\ note.data.url /= ""
    THEN note.data.url
    ELSE UrlRoot

\* FirstMatch taking the last client that passes the test
FirstMatch_Last(windows, canFocus) ==
    LET hits == { i \in 1..Len(windows) :
                    Includes(windows[i], Origin) /\ canFocus } IN
      IF hits = {} THEN 0 ELSE CHOOSE i \in hits : \A j \in hits : j <= i

\* the for loop over clientList: the index of the first client whose url
\* includes self.location.origin and that has focus; 0 when there is none
FirstMatch(windows, canFocus) ==
    LET hits == { i \in 1..Len(windows) :
                    Includes(windows[i], Origin) /\ canFocus } IN
      IF hits = {} THEN 0 ELSE CHOOSE i \in hits : \A j \in hits : i <= j

\* a notificationclick event on the notification on display: the listener
\* closes it, then focuses the first matching client or else opens a window
Click(windows, canFocus, canOpen) ==
    /\ Notifying
    /\ push.visible
    /\ LET note == push.shown[1]
           hit == FirstMatch(windows, canFocus) IN
         click' = [seen |-> TRUE, note |-> note, windows |-> windows,
                   canFocus |-> canFocus, canOpen |-> canOpen,
                   closed |-> TRUE, focused |-> hit,
                   opened |-> IF hit = 0 /\ canOpen
                              THEN <<UrlToOpen(note)>> ELSE <<>>]
    /\ push' = [push EXCEPT !.visible = FALSE]
    /\ UNCHANGED workerVars

SyncTags == {"sync-risk-data", "sync-other"}

\* a sync event: the listener logs for its own tag and does nothing
Sync(tag) ==
    /\ Notifying
    /\ UNCHANGED vars

\* the events of the notification dispatcher for the payloads P, the client
\* lists W and the platform capabilities F
Notify(P, W, F) ==
    \/ \E payload \in P : Push(payload)
    \/ \E w \in W, canFocus \in F, canOpen \in F : Click(w, canFocus, canOpen)
    \/ \E tag \in SyncTags : Sync(tag)

Lifecycle ==
    \/ Install
    \/ InstallSettle
    \/ Activate
    \/ ActivateDelete
    \/ ActivateClaim
    \/ ActivateDone

\* the control channel for the commands C
Control(C) ==
    \/ \E cmd \in C : Message(cmd)
    \/ ClearCacheSettle

(***************************************************************************)
(* Spec: the whole life of a worker, its fetch events handled one at a     *)
(* time; the messages it receives carry 'clearCache', the one command that *)
(* changes the cache storage.                                              *)
(***************************************************************************)
Next == Lifecycle \/ Control({"clearCache"}) \/ Fetch({1}, Requests)

Spec == Init /\ [][Next]_vars

(***************************************************************************)
(* SpecRace: an activated v3 worker whose install found the manifest       *)
(* reachable or not, handling overlapping fetch events for one URL.        *)
(***************************************************************************)
RaceRequests == {ReqManifest, ReqManifestHtml}

InitRace ==
    /\ variant = "v3"
    /\ phase = "activated"
    /\ cacheOrder = <<CACHE_NAME("v3")>>
    /\ \E d \in SUBSET {UrlManifest} :
          /\ down = {}
          /\ cacheEnt = [t \in Tags |->
                           IF t = CACHE_NAME("v3")
                           THEN [u \in {UrlManifest} \ d |->
                                   [ok |-> TRUE, type |-> "basic", body |-> 1]]
                           ELSE EmptyCache]
    /\ skipWaiting = TRUE
    /\ toDelete = {}
    /\ claimed = TRUE
    /\ inflight = [s \in Slots |-> IdleSlot]
    /\ pendingPut = {}
    /\ pendingDel = FALSE
    /\ cleared = FALSE
    /\ msg = "none"
    /\ push = NoPush
    /\ click = NoClick

NextRace == Fetch(Slots, RaceRequests)

SpecRace == InitRace /\ [][NextRace]_vars

(***************************************************************************)
(* SpecClassify: an activated worker without network, classifying and      *)
(* dispatching requests of every method, URL, Accept header and mode.      *)
(***************************************************************************)
ClassifyUrls == Urls \cup {UrlRef, UrlEvil}

\* a navigation is intercepted by the worker of the origin it leads to, and
\* the browser sends it with an Accept header that names text/html
ClassifyRequests ==
    { r \in [method : {"GET", "POST"}, url : ClassifyUrls,
             accept : {AcceptHtml, AcceptAny, <<>>},
             mode : {"navigate", "cors", "no-cors"}] :
        r.mode = "navigate" =>
            Host(r.url) = OriginHost /\ r.accept = AcceptHtml }

InitClassify ==
    /\ variant \in Variants
    /\ down = {}
    /\ phase = "activated"
    /\ cacheOrder = <<CACHE_NAME(variant)>>
    /\ cacheEnt = AddAssets([t \in Tags |-> EmptyCache], CACHE_NAME(variant),
                            InstallAssets(variant))
    /\ skipWaiting = TRUE
    /\ toDelete = {}
    /\ claimed = TRUE
    /\ inflight = [s \in Slots |-> IdleSlot]
    /\ pendingPut = {}
    /\ pendingDel = FALSE
    /\ cleared = FALSE
    /\ msg = "none"
    /\ push = NoPush
    /\ click = NoClick

NextClassify ==
    \/ \E req \in ClassifyRequests : FetchEvent(1, req)
    \/ CacheFirstMatch(1)
    \/ NetworkError(1)
    \/ FallbackMatch(1)
    \/ ShellMatch(1)
    \/ Retire(1)

SpecClassify == InitClassify /\ [][NextClassify]_vars

(***************************************************************************)
(* SpecNotify: an activated v3 or v1 worker receiving push, notification   *)
(* click and sync events.                                                  *)
(***************************************************************************)
InitNotify ==
    /\ variant \in {"v3", "v1"}
    /\ down = {}
    /\ phase = "activated"
    /\ cacheOrder = <<CACHE_NAME(variant)>>
    /\ cacheEnt = AddAssets([t \in Tags |-> EmptyCache], CACHE_NAME(variant),
                            InstallAssets(variant))
    /\ skipWaiting = TRUE
    /\ toDelete = {}
    /\ claimed = TRUE
    /\ inflight = [s \in Slots |-> IdleSlot]
    /\ pendingPut = {}
    /\ pendingDel = FALSE
    /\ cleared = FALSE
    /\ msg = "none"
    /\ push = NoPush
    /\ click = NoClick

NextNotify == Notify(Payloads, WindowLists, BOOLEAN)

SpecNotify == InitNotify /\ [][NextNotify]_vars

(***************************************************************************)
(* SpecEvents: a worker whose install finds every asset reachable, from    *)
(* the dispatch of its install event on, under all its events: activate,   *)
(* then fetch, message, push, notificationclick, sync.                     *)
(***************************************************************************)
EventRequests == {ReqNavRoot, ReqManifest, ReqArcgis}

InitEvents ==
    /\ variant \in Variants
    /\ down = {}
    /\ phase = "installing"
    /\ \E prior \in InjectiveSeqs(Tags, MaxPrior) :
          /\ cacheOrder = OpenOrder(prior, CACHE_NAME(variant))
          /\ cacheEnt = [t \in Tags |->
                           IF t \in SeqToSet(prior) THEN PriorCache ELSE EmptyCache]
    /\ skipWaiting = (variant = "final")
    /\ toDelete = {}
    /\ claimed = FALSE
    /\ inflight = [s \in Slots |-> IdleSlot]
    /\ pendingPut = {}
    /\ pendingDel = FALSE
    /\ cleared = FALSE
    /\ msg = "none"
    /\ push = NoPush
    /\ click = NoClick

NextEvents ==
    \/ InstallSettle
    \/ Activate
    \/ ActivateDelete
    \/ ActivateClaim
    \/ ActivateDone
    \/ Control(Commands)
    \/ Fetch({1}, EventRequests)
    \/ Notify({NoPayload}, {<<>>}, {TRUE})

SpecEvents == InitEvents /\ [][NextEvents]_vars

(***************************************************************************)
(* Properties.                                                             *)
(***************************************************************************)
\* the live-data domain: arcgis.com and the hosts under it
OnLiveDomain(u) ==
    /\ EndsWith(Host(u), ArcgisCom)
    /\ Len(Host(u)) > Len(ArcgisCom)
          => Host(u)[Len(Host(u)) - Len(ArcgisCom)] = "."

\* the worker's own cache
OwnCache == cacheEnt[CACHE_NAME(variant)]

\* C1: a GET request to the live-data domain is left to the network: the
\* handler ends without respondWith, without a cache read, without a
\* cache.put and without a fetch of its own, in every script
C1_LiveOnlyUntouched ==
    \A s \in Slots :
        LET e == inflight[s] IN
          (e.pc /= "idle" /\ e.req.method = "GET" /\ OnLiveDomain(e.req.url))
             => /\ e.pc = "done"
                /\ e.out = "pass"
                /\ ~e.rd /\ ~e.wr /\ ~e.nc

\* C1 witness: such a request has been passed through while its URL is in
\* the cache
C1_Witness ==
    \E s \in Slots :
        /\ inflight[s].pc = "done"
        /\ inflight[s].req = ReqArcgis
        /\ CachesMatch(UrlArcgisJs) /= NoResp

\* C2: the step that takes in a request whose method is not GET ends the
\* event at once without respondWith and leaves the cache storage and the
\* cache.put operations as they are
C2_NonGetPassThrough ==
    [][\A s \in Slots :
          (inflight[s].pc = "idle" /\ inflight'[s].pc /= "idle"
             /\ inflight'[s].req.method /= "GET")
             => /\ inflight'[s].pc = "done"
                /\ inflight'[s].out = "pass"
                /\ ~inflight'[s].rd /\ ~inflight'[s].wr /\ ~inflight'[s].nc
                /\ cacheOrder' = cacheOrder
                /\ cacheEnt' = cacheEnt
                /\ pendingPut' = pendingPut]_vars

\* C2 witness: a POST navigation to the root has been passed through
C2_Witness ==
    \E s \in Slots :
        /\ inflight[s].pc = "done"
        /\ inflight[s].req = ReqPost
        /\ inflight[s].out = "pass"

\* C3: once the worker is activated, and as long as no clearCache command
\* was received, exactly one cache exists and it is the worker's own
C3_OneStoreAfterActivate ==
    (phase = "activated" /\ ~cleared) => cacheOrder = <<CACHE_NAME(variant)>>

\* C3 witness: the worker is activated over a cache of its own name left by
\* an earlier worker (the manifest entry is still the earlier one)
C3_Witness ==
    /\ phase = "activated"
    /\ ~cleared
    /\ cacheOrder = <<CACHE_NAME(variant)>>
    /\ Lookup(OwnCache, UrlManifest) = Lookup(PriorCache, UrlManifest)
    /\ \A s \in Slots : inflight[s].pc = "idle"

\* C4: clients.claim() is called only when every deletion has settled, and
\* a fetch event is being handled only when the purge is over and the
\* clients are claimed
C4_ActivateBarrier ==
    /\ claimed => toDelete = {}
    /\ \A s \in Slots :
          inflight[s].pc /= "idle"
             => phase = "activated" /\ toDelete = {} /\ claimed

\* C4 witness: the purge is under way, one deletion settled and one not
C4_Witness ==
    /\ phase = "activating"
    /\ Cardinality(toDelete) = 1
    /\ Len(cacheOrder) = 2
    /\ ~claimed

\* C5: install never fails, and once it has settled activation has been
\* requested and the cache holds every reachable baseline asset, no
\* unreachable one (beyond what an earlier worker left) and nothing else
C5_InstallBestEffort ==
    /\ phase /= "redundant"
    /\ (phase = "installed" /\ ~cleared)
          => /\ skipWaiting
             /\ \A u \in CachedUrls :
                   IF u \in InstallAssets(variant) \ down
                   THEN Lookup(OwnCache, u) = [ok |-> TRUE, type |-> TypeOf(u), body |-> 1]
                   ELSE Lookup(OwnCache, u) \in {NoResp, Lookup(PriorCache, u)}

\* the network answered with a response whose status is outside 200..299
NonSuccess(r) == r.type \in {"basic", "cors"} /\ ~r.ok

\* C6: when networkFirstStrategy returns a successful network response, the
\* cache already holds it under the request's URL (no clearCache command
\* being involved)
C6_StoredBeforeReturn ==
    \A s \in Slots :
        LET e == inflight[s] IN
          (e.pc = "done" /\ e.strat = "NF" /\ e.net.ok /\ ~cleared)
             => /\ e.out = "resp"
                /\ e.res = e.net
                /\ Lookup(OwnCache, e.req.url) = e.net

\* C7 as claimed: networkFirstStrategy never stores a non-success response
\* and does not return it when the cache holds the request's URL or the
\* shell: it returns the cached entry
C7_NonSuccessFallsBack ==
    \A s \in Slots :
        LET e == inflight[s] IN
          (e.pc = "done" /\ e.strat = "NF" /\ NonSuccess(e.net))
             => /\ ~e.wr
                /\ CachesMatch(e.req.url) /= NoResp
                      => e.res = CachesMatch(e.req.url)
                /\ (CachesMatch(e.req.url) = NoResp
                      /\ CachesMatch(ShellUrl("NF")) /= NoResp)
                      => e.res = CachesMatch(ShellUrl("NF"))

\* C7 amended: networkFirstStrategy returns a non-success network response
\* as it is, without looking into the cache, and never stores it
C7_NonSuccessReturnedNotStored ==
    \A s \in Slots :
        LET e == inflight[s] IN
          (e.pc = "done" /\ e.strat = "NF" /\ NonSuccess(e.net))
             => /\ e.out = "resp"
                /\ e.res = e.net
                /\ e.from = "network"
                /\ ~e.rd
                /\ ~e.wr

\* C7 witness: a non-success response was returned for a navigation whose
\* URL the cache holds
C7_Witness ==
    \E s \in Slots :
        /\ inflight[s].pc = "done"
        /\ inflight[s].strat = "NF"
        /\ NonSuccess(inflight[s].net)
        /\ inflight[s].res = inflight[s].net
        /\ CachesMatch(inflight[s].req.url) /= NoResp

\* C8: after a network error a navigation handler ends in one of three
\* ways: with the cached entry of the request's URL when caches.match finds
\* one; else, that lookup having missed, with the cached shell; else, both
\* lookups having missed, by rejecting
C8_FallbackOrder ==
    [][\A s \in Slots :
          LET a == inflight[s]
              b == inflight'[s] IN
            (a.strat \in {"NF", "NAVFB"} /\ a.net = NetFail
               /\ a.pc /= "done" /\ b.pc = "done")
               => \/ /\ a.pc = "matchRequest"
                     /\ CachesMatch(a.req.url) /= NoResp
                     /\ b.out = "resp"
                     /\ b.res = CachesMatch(a.req.url)
                  \/ /\ a.pc = "matchShell"
                     /\ a.rd
                     /\ CachesMatch(ShellUrl(a.strat)) /= NoResp
                     /\ b.out = "resp"
                     /\ b.res = CachesMatch(ShellUrl(a.strat))
                  \/ /\ a.pc = "matchShell"
                     /\ a.rd
                     /\ CachesMatch(ShellUrl(a.strat)) = NoResp
                     /\ b.out = "reject"]_vars

\* C9 as claimed: two requests answered by cacheFirstStrategy from the cache
\* for the same URL got the same response (no clearCache command and no
\* activation takes place under SpecRace)
C9_IdenticalResponse ==
    \A s, t \in Slots :
        LET e == inflight[s]
            f == inflight[t] IN
          (e.pc = "done" /\ f.pc = "done" /\ e.strat = "CF" /\ f.strat = "CF"
             /\ e.from = "cache" /\ f.from = "cache" /\ e.req.url = f.req.url)
             => e.res = f.res

\* C9 amended: an entry of the cache stays (its content may be replaced by a
\* later cache.put for the same URL), and cacheFirstStrategy answers a
\* request whose URL the cache holds with the entry held at its lookup and
\* without a network call
C9_CachedServedWithoutNetwork ==
    [][/\ \A u \in CachedUrls : Lookup(OwnCache, u) /= NoResp => Lookup(OwnCache', u) /= NoResp
       /\ \A s \in Slots :
             LET a == inflight[s]
                 b == inflight'[s] IN
               (a.pc = "cacheMatch" /\ b.pc /= "cacheMatch"
                  /\ Lookup(OwnCache, a.req.url) /= NoResp)
                  => /\ b.pc = "done"
                     /\ b.out = "resp"
                     /\ b.res = Lookup(OwnCache, a.req.url)
                     /\ ~b.nc]_vars

\* C9 witness: cacheFirstStrategy answered from the cache, without a network
\* call, with content that replaced what install had stored
C9_Witness ==
    \E s \in Slots :
        /\ inflight[s].pc = "done"
        /\ inflight[s].strat = "CF"
        /\ inflight[s].from = "cache"
        /\ ~inflight[s].nc
        /\ inflight[s].res.body = 2

\* C10: when cacheFirstStrategy ends after a miss, a network error made it
\* reject without a cache.put, and a network response is what it returned,
\* a cache.put having been started exactly when the response is ok and the
\* request went to the worker's own origin
C10_CacheFirstMiss ==
    \A s \in Slots :
        LET e == inflight[s] IN
          (e.pc = "done" /\ e.strat = "CF" /\ e.net /= NoResp)
             => /\ e.rd
                /\ e.nc
                /\ IF e.net = NetFail
                   THEN e.out = "reject" /\ ~e.wr
                   ELSE /\ e.out = "resp"
                        /\ e.res = e.net
                        /\ e.wr <=> (e.net.ok /\ Host(e.req.url) = OriginHost)

\* C10 witness: a successful response from another origin was returned and
\* not stored
C10_Witness ==
    \E s \in Slots :
        /\ inflight[s].pc = "done"
        /\ inflight[s].strat = "CF"
        /\ inflight[s].req = ReqLeaflet
        /\ inflight[s].net.ok
        /\ inflight[s].res = inflight[s].net
        /\ ~inflight[s].wr

\* the title a push resolves to: the default, or the payload's own when the
\* payload parses and has one
ResolvedTitle(payload) ==
    IF payload.kind = "json" /\ "title" \in DOMAIN payload.json
    THEN payload.json.title
    ELSE TitleDefault

\* C11: the notification a push presents has requireInteraction exactly
\* when the resolved title contains "Critical" or contains "High", in every
\* script with a push listener
C11_RequireInteraction ==
    \A i \in 1..Len(push.shown) :
        push.shown[i].requireInteraction
            <=> \/ Includes(ResolvedTitle(push.payload), <<"Critical">>)
                \/ Includes(ResolvedTitle(push.payload), <<"High">>)

\* C12: a push whose payload does not parse still presents exactly one
\* notification, whose body is the payload's text and whose title, icon,
\* badge, tag and data.url are the defaults; a push without payload presents
\* the notification with every default
C12_ParseFailureDegrades ==
    /\ (push.seen /\ push.payload.kind = "text") =>
          /\ Len(push.shown) = 1
          /\ ~push.threw
          /\ push.shown[1].body = push.payload.text
          /\ push.shown[1].title = TitleDefault
          /\ push.shown[1].icon = UrlIcon
          /\ push.shown[1].badge = UrlIcon
          /\ push.shown[1].tag = "cliff-watch-alert"
          /\ push.shown[1].data = [url |-> UrlRoot]
    /\ (push.seen /\ push.payload.kind = "none") =>
          /\ Len(push.shown) = 1
          /\ ~push.threw
          /\ push.shown[1].body = BodyDefault
          /\ push.shown[1].title = TitleDefault
          /\ push.shown[1].icon = UrlIcon
          /\ push.shown[1].badge = UrlIcon
          /\ push.shown[1].tag = "cliff-watch-alert"
          /\ push.shown[1].data = [url |-> UrlRoot]

\* a push whose payload is text that looks like the start of an object
\* has presented its notification
C12_Witness ==
    /\ push.seen
    /\ push.payload = TextPayload(TextBrace)
    /\ Len(push.shown) = 1
    /\ push.shown[1].body = TextBrace

\* the URL of a client window has the worker's origin
SharesOrigin(u) ==
    /\ Len(u) >= Len(Origin)
    /\ SubSeq(u, 1, Len(Origin)) = Origin
    /\ Len(u) > Len(Origin) => u[Len(Origin) + 1] = "/"

\* the windows of the last click whose URL has the worker's origin
SameOriginWindows == { i \in 1..Len(click.windows) : SharesOrigin(click.windows[i]) }

\* the URL a click on the notification leads to: its data.url, or the root
\* when it has none (or an empty one)
Target(note) ==
    IF "url" \in DOMAIN note.data /\ note.data.url /= ""
    THEN note.data.url
    ELSE "/"

\* C13, as stated: a notification click dismisses the notification; where
\* a window with the worker's origin is open the first such window is
\* focused and no window is opened; otherwise exactly one window is opened,
\* at the notification's data.url or at the root; nothing happens when the
\* platform has neither capability
C13_FocusElseOpen ==
    click.seen =>
        /\ click.closed
        /\ IF ~click.canFocus /\ ~click.canOpen
           THEN click.focused = 0 /\ click.opened = <<>>
           ELSE IF SameOriginWindows /= {}
           THEN /\ click.focused \in SameOriginWindows
                /\ \A i \in SameOriginWindows : click.focused <= i
                /\ click.opened = <<>>
           ELSE /\ click.focused = 0
                /\ click.opened = <<Target(click.note)>>

\* C13, amended: a notification click dismisses the notification; where a
\* window with the worker's origin is open and clients can be focused, the
\* first such window is focused and no window is opened; in every other
\* case no window is focused and, where windows can be opened, exactly one
\* is opened, at the notification's data.url or at the root, else none;
\* focus and open never both happen
C13_FocusOrOpen ==
    click.seen =>
        /\ click.closed
        /\ IF SameOriginWindows /= {} /\ click.canFocus
           THEN /\ click.focused \in SameOriginWindows
                /\ \A i \in SameOriginWindows : click.focused <= i
                /\ click.opened = <<>>
           ELSE /\ click.focused = 0
                /\ click.opened = IF click.canOpen
                                  THEN <<Target(click.note)>> ELSE <<>>
        /\ ~(click.focused /= 0 /\ click.opened /= <<>>)

\* a click with two windows of the worker's origin open behind one that is
\* not: the first of the two was focused
C13_Witness ==
    /\ click.seen
    /\ click.canFocus
    /\ click.windows = <<AboutBlank, Href(UrlIndex)>>
    /\ click.focused = 2
    /\ click.opened = <<>>
    /\ ~push.visible

\* C14, as stated: a message 'clear-cache' has the worker's cache deleted,
\* a message 'force-update' has skipWaiting called, and any other message
\* leaves the cache storage and the lifecycle state as they are
C14_KebabCommands ==
    [][msg' /= msg =>
          /\ msg' = "clear-cache" => pendingDel'
          /\ msg' = "force-update" => skipWaiting'
          /\ msg' \notin {"clear-cache", "force-update"} =>
                UNCHANGED <<cacheVars, pendingDel, lifecycleVars>>]_vars

\* C14, amended: a message 'clearCache' starts the deletion of the worker's
\* cache, and once the deletion settles no cache of that name exists until
\* a handler that stores a response opens it again; a message 'skipWaiting'
\* has skipWaiting called; any other message leaves the cache storage and
\* the lifecycle state as they are; a deletion is started by nothing else
C14_CamelCommands ==
    [][/\ msg' /= msg =>
            /\ msg' = "clearCache" => pendingDel'
            /\ msg' = "skipWaiting" => skipWaiting'
            /\ msg' \notin {"clearCache", "skipWaiting"} =>
                  UNCHANGED <<cacheVars, pendingDel, lifecycleVars>>
       /\ (~pendingDel /\ pendingDel') => msg' = "clearCache"
       /\ (pendingDel /\ ~pendingDel') => ~CacheExists(CACHE_NAME(variant))'
       /\ (/\ cleared
           /\ ~CacheExists(CACHE_NAME(variant))
           /\ CacheExists(CACHE_NAME(variant))') =>
              \E s \in Slots : ~inflight[s].wr /\ inflight'[s].wr]_vars

\* 'clearCache' was the last message, its deletion has settled and the
\* activated worker has no cache
C14_Witness ==
    /\ msg = "clearCache"
    /\ phase = "activated"
    /\ ~pendingDel
    /\ ~CacheExists(CACHE_NAME(variant))

\* the class of a GET request: LiveOnly when its host is on the live-data
\* domain, else Navigation for a page navigation, an Accept header naming
\* HTML, the root path or a path ending in .html, else StaticAsset
ClassOf(req) ==
    IF OnLiveDomain(req.url) THEN "LiveOnly"
    ELSE IF \/ req.mode = "navigate"
            \/ Includes(req.accept, <<"text/html">>)
            \/ Path(req.url) = <<"/">>
            \/ EndsWith(Path(req.url), <<".", "html">>)
         THEN "Navigation"
    ELSE "StaticAsset"

\* the strategies a class is to be dispatched to: none for LiveOnly, a
\* network-first one for Navigation, cache-first for StaticAsset
DispatchOf(class) ==
    CASE class = "LiveOnly"    -> {"pass"}
      [] class = "Navigation"  -> {"NF", "NAVFB"}
      [] class = "StaticAsset" -> {"CF"}

\* C15: every GET request is dispatched by its class, and the class looks
\* at the host alone for the live-data domain, matched as a domain suffix
C15_Classification ==
    [][\A s \in Slots :
          (/\ inflight[s].pc = "idle"
           /\ inflight'[s].pc /= "idle"
           /\ inflight'[s].req.method = "GET")
             => inflight'[s].strat \in DispatchOf(ClassOf(inflight'[s].req))]_vars

\* a promise given to event.waitUntil or to event.respondWith has not
\* settled: the host keeps the worker alive for it
RegisteredPending ==
    \/ phase \in {"installing", "activating"}
    \/ \E s \in Slots : inflight[s].pc \notin {"idle", "done"}

\* C16: whenever no registered operation is pending, no cache.put and no
\* caches.delete started by a handler is still in flight
C16_MutationsRegistered ==
    ~RegisteredPending => (pendingPut = {} /\ ~pendingDel)

\* the steps of the handler in slot s up to the settling of its promise
SlotStep(s) ==
    \/ CacheFirstMatch(s)
    \/ \E resp \in Resp :
          resp \in NetResponses(inflight[s].req.url) /\ NetworkResponse(s, resp)
    \/ NetworkError(s)
    \/ FallbackMatch(s)
    \/ ShellMatch(s)

\* how far a handler has come
Rank(pc) ==
    CASE pc = "idle"         -> 0
      [] pc = "cacheMatch"   -> 1
      [] pc = "fetch"        -> 2
      [] pc = "matchRequest" -> 3
      [] pc = "matchShell"   -> 4
      [] pc = "done"         -> 5

C18_OnlySuccessStored ==
    /\ \A p \in pendingPut : p.resp.ok
    /\ \A t \in Tags : \A u \in DOMAIN cacheEnt[t] : cacheEnt[t][u].ok

\* networkFirstStrategy has stored the second content of the root document
\* after an error response for it was returned to a page
C18_Witness ==
    /\ variant = "v3"
    /\ Lookup(OwnCache, UrlRoot).body = 2
    /\ inflight[1].pc = "done"
    /\ inflight[1].req = ReqNavRoot
    /\ NonSuccess(inflight[1].net)

\* C19: once the worker is activated, no cache exists but its own
C19_OnlyOwnTag ==
    phase = "activated" => SeqToSet(cacheOrder) \subseteq {CACHE_NAME(variant)}

\* after a clearCache, a fetch has created the worker's cache anew, without
\* the manifest that install had stored, and a notification was clicked
C19_Witness ==
    /\ phase = "activated"
    /\ cleared /\ ~pendingDel
    /\ cacheOrder = <<CACHE_NAME(variant)>>
    /\ Lookup(OwnCache, UrlManifest) = NoResp
    /\ Lookup(OwnCache, UrlRoot) /= NoResp
    /\ click.seen

\* C20: the entry of a baseline asset on the live-data domain is written
\* while the worker installs and by nothing later; a GET for such a URL
\* ends without respondWith and without a cache read, and no response a
\* handler serves from the cache storage is that of a live-data URL
C20_LiveAssetStoredNeverRead ==
    [][/\ \A u \in Urls :
            (OnLiveDomain(u) /\ Lookup(OwnCache', u) /= Lookup(OwnCache, u))
               => phase = "installing" \/ Lookup(OwnCache', u) = NoResp
       /\ \A s \in Slots :
            LET e == inflight'[s] IN
              /\ (e.pc /= "idle" /\ e.req.method = "GET" /\ OnLiveDomain(e.req.url))
                    => e.pc = "done" /\ e.out = "pass" /\ ~e.rd /\ e.from = "none"
              /\ e.from = "cache" => ~OnLiveDomain(e.req.url)
              /\ e.from = "shell" => ~OnLiveDomain(ShellUrl(e.strat))]_vars

\* the v3 worker holds its copy of the ArcGIS script and has left a GET for
\* it to the browser
C20_Witness ==
    /\ variant = "v3"
    /\ phase = "activated"
    /\ Lookup(OwnCache, UrlArcgisJs).ok
    /\ inflight[1].pc = "done"
    /\ inflight[1].req = ReqArcgis
    /\ inflight[1].out = "pass"
    /\ ~inflight[1].rd


====
